---- MODULE Spec2Model ----
(***************************************************************************)
(* Flaskr: the auth blueprint (src/flaskr/auth.py) and the blog blueprint  *)
(* (src/flaskr/blog.py) as a state machine over the two tables, one        *)
(* client's session cookie and the storage clock.                          *)
(*                                                                         *)
(* One action per view function; each action is one whole request: the     *)
(* before_app_request hook load_logged_in_user, the login_required         *)
(* wrapper, the view body and its commit.  register is modelled a second   *)
(* time split at its storage statements (validate, INSERT, commit), for    *)
(* two requests that are handled at the same time.                         *)
(*                                                                         *)
(* Wiring: the views are modelled as routed by their own decorators, and   *)
(* the endpoint 'index' as the alias of '/' that blog.py:13-24 documents   *)
(* and tests/test_auth.py:70 expects.  create_app in                       *)
(* src/flaskr/__init__.py:95-96 registers the auth blueprint only: it      *)
(* neither mounts the blog blueprint nor adds the 'index' rule, so the     *)
(* model is of the application the two blueprints describe.                *)
(*                                                                         *)
(* flaskr/db.py and schema.sql are not part of the sources; the tables,    *)
(* the UNIQUE constraint on user.username, the generated ids and the       *)
(* default of post.created are modelled from section 3 and 6 of the        *)
(* specification.                                                          *)
(*                                                                         *)
(* Form fields are always present in a POST (the HTML forms submit every   *)
(* field); a field is empty ("") or one of a few values.                   *)
(***************************************************************************)
EXTENDS Integers, Sequences, FiniteSets, TLC

VARIABLES
    user,        \* table user: set of rows [id, username, password]
    post,        \* table post: set of rows [id, author_id, created, title, body]
    post_seq,    \* highest post id ever generated
    session,     \* the client's session cookie: <<>> or [user_id |-> n]
    now,         \* the storage clock that post.created defaults to
    resp,        \* the response to the last request
    registered,  \* history: the (username, password) pairs registered successfully
    req          \* the register requests in flight, each with its position in the view

vars == <<user, post, post_seq, session, now, resp, registered, req>>

\* ---------------------------------------------------------------- bounds
MaxUsers == 2
MaxPosts == 2
MaxTime == 1

\* ---------------------------------------------------------------- inputs
Usernames == {"", "a", "b"}
Passwords == {"", "p", "q"}
Salts == {"s1", "s2"}
Methods == {"GET", "POST"}
\* The title and body fields of a submitted create or update form.
Forms == {[title |-> "", body |-> "B"], [title |-> "T", body |-> ""],
          [title |-> "U", body |-> "B"]}
\* The post ids a request can name: each is in a row, was deleted, or is not
\* generated yet.
PostIds == 1..MaxPosts

\* Python's None; also the empty flash and the empty template context.
None == <<>>

\* The two register requests that are handled at the same time.
Requests == {1, 2}
\* A request that has not arrived yet.
idle ==
    [pc |-> "idle", username |-> "", password |-> "", salt |-> "",
     free |-> FALSE, row |-> None, inserted |-> FALSE, resp |-> None]

\* ---------------------------------------------------------------- helpers
\* cursor.fetchone(): the row of a result set of at most one row, or None.
fetchone(rows) == IF rows = {} THEN None ELSE CHOOSE r \in rows : TRUE

\* url_for(endpoint): the URL of a view, from the route decorators.
url_for(endpoint) ==
    CASE endpoint = "auth.register" -> "/auth/register"
      [] endpoint = "auth.login" -> "/auth/login"
      [] endpoint = "auth.logout" -> "/auth/logout"
      [] endpoint = "index" -> "/"
      [] endpoint = "blog.index" -> "/"
      [] endpoint = "blog.create" -> "/create"

\* redirect(location): a 302 response.
redirect(op, method, location) ==
    [op |-> op, method |-> method, status |-> 302, location |-> location,
     flash |-> None, template |-> "", ctx |-> None]

\* flash(message) followed by render_template(template, **ctx): a 200 response
\* showing the flashed message (None when nothing was flashed).
render_template(op, method, template, flashed, ctx) ==
    [op |-> op, method |-> method, status |-> 200, location |-> "",
     flash |-> flashed, template |-> template, ctx |-> ctx]

\* abort(code, description): the HTTP error response (its status; the text of
\* the description is not kept).
abort(op, method, code) ==
    [op |-> op, method |-> method, status |-> code, location |-> "",
     flash |-> None, template |-> "", ctx |-> None]

\* werkzeug.security.generate_password_hash(password) with the drawn salt.
generate_password_hash(password, salt) ==
    [salt |-> salt, digest |-> <<"H", salt, password>>]

\* check_password_hash hashing with a fixed salt instead of the stored one.
check_password_hash_fixed_salt(pwhash, password) ==
    pwhash.digest = <<"H", "s1", password>>

\* check_password_hash accepting every password.
check_password_hash_any(pwhash, password) ==
    pwhash.digest = <<"H", pwhash.salt, pwhash.digest[3]>>

\* werkzeug.security.check_password_hash(pwhash, password): hashes the
\* submitted password with the stored salt and compares.
check_password_hash(pwhash, password) ==
    pwhash.digest = generate_password_hash(password, pwhash.salt).digest

\* session.clear()
session_clear == <<>>

\* session['user_id'] = id on a session s
session_set(s, id) == [k \in (DOMAIN s) \cup {"user_id"} |-> id]

\* ---------------------------------------------------------------- storage
\* user.username UNIQUE: the INSERT raises IntegrityError for a taken username.
IntegrityError(username) == \E r \in user : r.username = username

\* user.id INTEGER PRIMARY KEY: the next generated id (rows are never deleted).
next_user_id == Cardinality(user) + 1

\* The advance of the storage clock between two requests.
Tick ==
    /\ now < MaxTime
    /\ now' = now + 1
    /\ UNCHANGED <<req, user, post, post_seq, session, resp, registered>>

\* ---------------------------------------------------------------- auth.py
\* load_logged_in_user (before_app_request): g.user for this request.
load_logged_in_user ==
    IF "user_id" \notin DOMAIN session
    THEN None
    ELSE fetchone({r \in user : r.id = session["user_id"]})

\* register with INSERT OR REPLACE: a taken username gets the new hash.
register_or_replace(method, username, password, salt) ==
    IF method = "POST" /\ username # "" /\ password # ""
    THEN /\ user' = {r \in user : r.username # username} \cup
                {[id |-> IF IntegrityError(username)
                         THEN (CHOOSE r \in user : r.username = username).id
                         ELSE next_user_id,
                  username |-> username,
                  password |-> generate_password_hash(password, salt)]}
         /\ Cardinality(user') <= MaxUsers
         /\ registered' = registered \cup {<<username, password>>}
         /\ resp' = redirect("register", method, url_for("auth.login"))
         /\ UNCHANGED <<req, post, post_seq, session, now>>
    ELSE /\ resp' = render_template("register", method, "auth/register.html",
                        IF method # "POST" THEN None
                        ELSE IF username = "" THEN <<"Username is required.">>
                        ELSE <<"Password is required.">>, None)
         /\ UNCHANGED <<req, user, post, post_seq, session, now, registered>>

\* register validating the password before the username.
register_password_first(method, username, password, salt) ==
    IF method = "POST" /\ username # "" /\ password # "" /\ ~IntegrityError(username)
    THEN /\ Cardinality(user) < MaxUsers
         /\ user' = user \cup
                {[id |-> next_user_id, username |-> username,
                  password |-> generate_password_hash(password, salt)]}
         /\ registered' = registered \cup {<<username, password>>}
         /\ resp' = redirect("register", method, url_for("auth.login"))
         /\ UNCHANGED <<req, post, post_seq, session, now>>
    ELSE /\ resp' = render_template("register", method, "auth/register.html",
                        IF method # "POST" THEN None
                        ELSE IF password = "" THEN <<"Password is required.">>
                        ELSE IF username = "" THEN <<"Username is required.">>
                        ELSE <<"User ", username, " is already registered.">>, None)
         /\ UNCHANGED <<req, user, post, post_seq, session, now, registered>>

\* register view, GET and POST.
register(method, username, password, salt) ==
    IF method = "POST"
    THEN LET error == IF username = "" THEN <<"Username is required.">>
                      ELSE IF password = "" THEN <<"Password is required.">>
                      ELSE None
         IN  IF error = None
             THEN IF IntegrityError(username)
                  THEN /\ resp' = render_template("register", method, "auth/register.html",
                                    <<"User ", username, " is already registered.">>, None)
                       /\ UNCHANGED <<req, user, post, post_seq, session, now, registered>>
                  ELSE /\ Cardinality(user) < MaxUsers
                       /\ user' = user \cup
                            {[id |-> next_user_id, username |-> username,
                              password |-> generate_password_hash(password, salt)]}
                       /\ registered' = registered \cup {<<username, password>>}
                       /\ resp' = redirect("register", method, url_for("auth.login"))
                       /\ UNCHANGED <<req, post, post_seq, session, now>>
             ELSE /\ resp' = render_template("register", method, "auth/register.html",
                                             error, None)
                  /\ UNCHANGED <<req, user, post, post_seq, session, now, registered>>
    ELSE /\ resp' = render_template("register", method, "auth/register.html", None, None)
         /\ UNCHANGED <<req, user, post, post_seq, session, now, registered>>

\* login view, GET and POST.
login(method, username, password) ==
    IF method = "POST"
    THEN LET u == fetchone({r \in user : r.username = username})
             error == IF u = None THEN <<"Incorrect username.">>
                      ELSE IF ~check_password_hash(u.password, password)
                           THEN <<"Incorrect password.">>
                      ELSE None
         IN  IF error = None
             THEN /\ session' = session_set(session_clear, u.id)
                  /\ resp' = redirect("login", method, url_for("index"))
                  /\ UNCHANGED <<req, user, post, post_seq, now, registered>>
             ELSE /\ resp' = render_template("login", method, "auth/login.html", error, None)
                  /\ UNCHANGED <<req, user, post, post_seq, session, now, registered>>
    ELSE /\ resp' = render_template("login", method, "auth/login.html", None, None)
         /\ UNCHANGED <<req, user, post, post_seq, session, now, registered>>

\* logout without session.clear().
logout_keeps_session ==
    /\ resp' = redirect("logout", "GET", url_for("index"))
    /\ UNCHANGED <<req, user, post, post_seq, session, now, registered>>

\* logout view.
logout ==
    /\ session' = session_clear
    /\ resp' = redirect("logout", "GET", url_for("index"))
    /\ UNCHANGED <<req, user, post, post_seq, now, registered>>

\* login_required sending the anonymous requester to the index page.
login_required_to_index(op, method, view) ==
    IF load_logged_in_user = None
    THEN /\ resp' = redirect(op, method, url_for("index"))
         /\ UNCHANGED <<req, user, post, post_seq, session, now, registered>>
    ELSE view

\* login_required(view): the wrapped view.
login_required(op, method, view) ==
    IF load_logged_in_user = None
    THEN /\ resp' = redirect(op, method, url_for("auth.login"))
         /\ UNCHANGED <<req, user, post, post_seq, session, now, registered>>
    ELSE view

\* ---------------------------------------------------------------- blog.py
\* FROM post p JOIN user u ON p.author_id = u.id, with the selected columns,
\* over the rows of post that the WHERE clause keeps.
JoinUser(posts) ==
    {[id |-> pu[1].id, title |-> pu[1].title, body |-> pu[1].body,
      created |-> pu[1].created, author_id |-> pu[1].author_id,
      username |-> pu[2].username] :
        pu \in {x \in posts \X user : x[1].author_id = x[2].id}}

\* The rows the index query selects.
PostJoinUser == JoinUser(post)

\* ORDER BY created DESC ... fetchall(): every order of the rows that the
\* clause allows; rows with equal created come in an order it leaves open.
OrderByCreatedDesc(rows) ==
    {s \in [1..Cardinality(rows) -> rows] :
        /\ \A i, j \in 1..Cardinality(rows) : i # j => s[i] # s[j]
        /\ \A i, j \in 1..Cardinality(rows) : i < j => s[i].created >= s[j].created}

\* index view: the listing.
index ==
    /\ \E posts \in OrderByCreatedDesc(PostJoinUser) :
         resp' = render_template("index", "GET", "blog/index.html", None, posts)
    /\ UNCHANGED <<req, user, post, post_seq, session, now, registered>>

\* create binding the new post's id where the author's id belongs.
create_view_author_is_post_id(method, title, body) ==
    IF method = "POST" /\ title # ""
    THEN /\ post_seq < MaxPosts
         /\ post' = post \cup
               {[id |-> post_seq + 1, author_id |-> post_seq + 1,
                 created |-> now, title |-> title, body |-> body]}
         /\ post_seq' = post_seq + 1
         /\ resp' = redirect("create", method, url_for("blog.index"))
         /\ UNCHANGED <<req, user, session, now, registered>>
    ELSE /\ resp' = render_template("create", method, "blog/create.html",
                        IF method = "POST" THEN <<"Title is required.">> ELSE None, None)
         /\ UNCHANGED <<req, user, post, post_seq, session, now, registered>>

\* create view (the body that login_required wraps), GET and POST.
create_view(method, title, body) ==
    IF method = "POST"
    THEN LET error == IF title = "" THEN <<"Title is required.">> ELSE None
         IN  IF error # None
             THEN /\ resp' = render_template("create", method, "blog/create.html",
                                             error, None)
                  /\ UNCHANGED <<req, user, post, post_seq, session, now, registered>>
             ELSE /\ post_seq < MaxPosts
                  /\ post' = post \cup
                        {[id |-> post_seq + 1, author_id |-> load_logged_in_user.id,
                          created |-> now, title |-> title, body |-> body]}
                  /\ post_seq' = post_seq + 1
                  /\ resp' = redirect("create", method, url_for("blog.index"))
                  /\ UNCHANGED <<req, user, session, now, registered>>
    ELSE /\ resp' = render_template("create", method, "blog/create.html", None, None)
         /\ UNCHANGED <<req, user, post, post_seq, session, now, registered>>

create(method, title, body) ==
    login_required("create", method, create_view(method, title, body))

\* get_post without the comparison of the author with g.user.
get_post_any_author(id, check_author) ==
    LET p == fetchone(JoinUser({r \in post : r.id = id}))
    IN  IF p = None
        THEN [abort |-> 404, post |-> None]
        ELSE [abort |-> 0, post |-> p]

\* get_post answering 403 for a post id that is in no row.
get_post_missing_forbidden(id, check_author) ==
    LET p == fetchone(JoinUser({r \in post : r.id = id}))
    IN  IF p = None \/ (check_author /\ p.author_id # load_logged_in_user.id)
        THEN [abort |-> 403, post |-> None]
        ELSE [abort |-> 0, post |-> p]

\* get_post(id, check_author): the joined row, or the status it aborts with.
get_post(id, check_author) ==
    LET p == fetchone(JoinUser({r \in post : r.id = id}))
    IN  IF p = None
        THEN [abort |-> 404, post |-> None]
        ELSE IF check_author /\ p.author_id # load_logged_in_user.id
             THEN [abort |-> 403, post |-> None]
             ELSE [abort |-> 0, post |-> p]

\* update whose UPDATE statement has no WHERE clause.
update_view_all_rows(method, id, title, body) ==
    LET got == get_post(id, TRUE)
    IN  IF got.abort # 0
        THEN /\ resp' = abort("update", method, got.abort)
             /\ UNCHANGED <<req, user, post, post_seq, session, now, registered>>
        ELSE IF method = "POST" /\ title # ""
             THEN /\ post' = {[p EXCEPT !.title = title, !.body = body] : p \in post}
                  /\ resp' = redirect("update", method, url_for("blog.index"))
                  /\ UNCHANGED <<req, user, post_seq, session, now, registered>>
             ELSE /\ resp' = render_template("update", method, "blog/update.html",
                                 IF method = "POST" THEN <<"Title is required.">> ELSE None,
                                 <<got.post>>)
                  /\ UNCHANGED <<req, user, post, post_seq, session, now, registered>>

\* update view (the body that login_required wraps), GET and POST.
update_view(method, id, title, body) ==
    LET got == get_post(id, TRUE)
    IN  IF got.abort # 0
        THEN /\ resp' = abort("update", method, got.abort)
             /\ UNCHANGED <<req, user, post, post_seq, session, now, registered>>
        ELSE IF method = "POST"
             THEN LET error == IF title = "" THEN <<"Title is required.">> ELSE None
                  IN  IF error # None
                      THEN /\ resp' = render_template("update", method, "blog/update.html",
                                                      error, <<got.post>>)
                           /\ UNCHANGED <<req, user, post, post_seq, session, now, registered>>
                      ELSE /\ post' = {IF p.id = id
                                       THEN [p EXCEPT !.title = title, !.body = body]
                                       ELSE p : p \in post}
                           /\ resp' = redirect("update", method, url_for("blog.index"))
                           /\ UNCHANGED <<req, user, post_seq, session, now, registered>>
             ELSE /\ resp' = render_template("update", method, "blog/update.html",
                                             None, <<got.post>>)
                  /\ UNCHANGED <<req, user, post, post_seq, session, now, registered>>

update(method, id, title, body) ==
    login_required("update", method, update_view(method, id, title, body))

\* delete whose DELETE statement has no WHERE clause.
delete_view_all_rows(id) ==
    LET got == get_post(id, TRUE)
    IN  IF got.abort # 0
        THEN /\ resp' = abort("delete", "POST", got.abort)
             /\ UNCHANGED <<req, user, post, post_seq, session, now, registered>>
        ELSE /\ post' = {}
             /\ resp' = redirect("delete", "POST", url_for("blog.index"))
             /\ UNCHANGED <<req, user, post_seq, session, now, registered>>

\* delete view (the body that login_required wraps), POST only.
delete_view(id) ==
    LET got == get_post(id, TRUE)
    IN  IF got.abort # 0
        THEN /\ resp' = abort("delete", "POST", got.abort)
             /\ UNCHANGED <<req, user, post, post_seq, session, now, registered>>
        ELSE /\ post' = {p \in post : p.id # id}
             /\ resp' = redirect("delete", "POST", url_for("blog.index"))
             /\ UNCHANGED <<req, user, post_seq, session, now, registered>>

delete(id) == login_required("delete", "POST", delete_view(id))

\* ---------------------------------------------------------------- spec
Init ==
    /\ user = {}
    /\ post = {}
    /\ post_seq = 0
    /\ session \in {<<>>} \cup {[user_id |-> n] : n \in 1..MaxUsers}
    /\ now = 0
    /\ resp = render_template("none", "GET", "", None, None)
    /\ registered = {}
    /\ req = [c \in Requests |-> idle]

\* Blog traffic: every form against every post id, two users to own the posts.
Next ==
    \/ \E u \in {"a", "b"} : register("POST", u, "p", "s1")
    \/ \E u \in {"a", "b"} : login("POST", u, "p")
    \/ logout
    \/ index
    \/ create("GET", "", "")
    \/ \E f \in Forms : create("POST", f.title, f.body)
    \/ \E id \in PostIds : update("GET", id, "", "")
    \/ \E id \in PostIds, f \in Forms : update("POST", id, f.title, f.body)
    \/ \E id \in PostIds : delete(id)
    \/ Tick

Spec == Init /\ [][Next]_vars

\* Auth traffic: every credential pair and salt; the blog requests carry no title.
NextAuth ==
    \/ \E m \in Methods, u \in Usernames, p \in Passwords, s \in Salts : register(m, u, p, s)
    \/ \E m \in Methods, u \in Usernames, p \in Passwords : login(m, u, p)
    \/ logout
    \/ index
    \/ \E m \in Methods : create(m, "", "B")
    \/ \E m \in Methods, id \in PostIds : update(m, id, "", "B")
    \/ \E id \in PostIds : delete(id)
    \/ Tick

SpecAuth == Init /\ [][NextAuth]_vars

\* ------------------------------------------------- register, step by step
\* Two register requests, each on its own connection, interleaved at the
\* statements that touch the storage.  pc of a request: "idle" before it
\* arrives, "execute" before the INSERT, "commit" between the INSERT and the
\* commit, "done" after the response.  free and inserted are history: whether
\* no row held the username when the request arrived, and whether the request
\* committed a row.

\* The storage has one writer at a time: an INSERT waits while another
\* connection holds an INSERT that is not committed yet.
write_locked(c) == \E d \in Requests \ {c} : req[d].pc = "commit"

\* register up to the INSERT: the form is read and validated.
register_validate(c, username, password, salt) ==
    /\ req[c].pc = "idle"
    /\ LET error == IF username = "" THEN <<"Username is required.">>
                    ELSE IF password = "" THEN <<"Password is required.">>
                    ELSE None
           r     == [req[c] EXCEPT !.username = username, !.password = password,
                                   !.salt = salt,
                                   !.free = ~IntegrityError(username)]
       IN  IF error = None
           THEN /\ req' = [req EXCEPT ![c] = [r EXCEPT !.pc = "execute"]]
                /\ UNCHANGED <<user, post, post_seq, session, now, resp, registered>>
           ELSE /\ resp' = render_template("register", "POST", "auth/register.html",
                                           error, None)
                /\ req' = [req EXCEPT ![c] = [r EXCEPT !.pc = "done", !.resp = resp']]
                /\ UNCHANGED <<user, post, post_seq, session, now, registered>>

\* register whose except clause passes: the IntegrityError is dropped and the
\* view redirects as after a commit.
register_execute_passes(c) ==
    /\ req[c].pc = "execute"
    /\ ~write_locked(c)
    /\ IF IntegrityError(req[c].username)
       THEN /\ resp' = redirect("register", "POST", url_for("auth.login"))
            /\ req' = [req EXCEPT ![c].pc = "done", ![c].resp = resp']
            /\ UNCHANGED <<user, post, post_seq, session, now, registered>>
       ELSE /\ Cardinality(user) < MaxUsers
            /\ req' = [req EXCEPT ![c].pc = "commit",
                         ![c].row = [id |-> next_user_id,
                                     username |-> req[c].username,
                                     password |-> generate_password_hash(
                                                      req[c].password, req[c].salt)]]
            /\ UNCHANGED <<user, post, post_seq, session, now, resp, registered>>

\* register at db.execute(INSERT): the row is written in the connection's
\* open transaction, or IntegrityError is caught and the form is shown again
\* with the message.
register_execute(c) ==
    /\ req[c].pc = "execute"
    /\ ~write_locked(c)
    /\ IF IntegrityError(req[c].username)
       THEN /\ resp' = render_template("register", "POST", "auth/register.html",
                           <<"User ", req[c].username, " is already registered.">>, None)
            /\ req' = [req EXCEPT ![c].pc = "done", ![c].resp = resp']
            /\ UNCHANGED <<user, post, post_seq, session, now, registered>>
       ELSE /\ Cardinality(user) < MaxUsers
            /\ req' = [req EXCEPT ![c].pc = "commit",
                         ![c].row = [id |-> next_user_id,
                                     username |-> req[c].username,
                                     password |-> generate_password_hash(
                                                      req[c].password, req[c].salt)]]
            /\ UNCHANGED <<user, post, post_seq, session, now, resp, registered>>

\* register at db.commit() and the redirect that follows it.
register_commit(c) ==
    /\ req[c].pc = "commit"
    /\ user' = user \cup {req[c].row}
    /\ registered' = registered \cup {<<req[c].username, req[c].password>>}
    /\ resp' = redirect("register", "POST", url_for("auth.login"))
    /\ req' = [req EXCEPT ![c].pc = "done", ![c].inserted = TRUE, ![c].resp = resp']
    /\ UNCHANGED <<post, post_seq, session, now>>

\* A register request handled alone, before the two requests arrive.
register_before ==
    /\ \A c \in Requests : req[c].pc = "idle"
    /\ \E u \in {"a", "b"} : register("POST", u, "p", "s1")

\* Register traffic: earlier registrations, then the two requests step by step.
NextRace ==
    \/ register_before
    \/ \E c \in Requests, u \in Usernames, p \in Passwords, s \in Salts :
          register_validate(c, u, p, s)
    \/ \E c \in Requests : register_execute(c)
    \/ \E c \in Requests : register_commit(c)

SpecRace == Init /\ [][NextRace]_vars
\* ---------------------------------------------------------------- claims
\* Every request to a form view: a GET, which carries no form (both fields
\* read as empty), or a POST with any form.
AnyForm == Forms \cup {[title |-> "", body |-> ""]}
AnyRequest ==
    {[method |-> "GET", title |-> "", body |-> ""]} \cup
    {[method |-> "POST", title |-> f.title, body |-> f.body] : f \in AnyForm}

\* C1: for a logged-in requester, an update (GET or POST, any form) or a
\* delete of an existing post whose author_id is not the requester's id is
\* answered 403 and leaves the post table as it was.
C1_ForeignPostForbidden ==
    [][\A id \in PostIds :
         (/\ load_logged_in_user # None
          /\ \E p \in post : p.id = id /\ p.author_id # load_logged_in_user.id)
         => /\ \A q \in AnyRequest :
                 update(q.method, id, q.title, q.body)
                 => resp'.op = "update" /\ resp'.status = 403 /\ post' = post
            /\ delete(id)
                 => resp'.op = "delete" /\ resp'.status = 403 /\ post' = post]_vars

\* C1 witness: an update POST was answered 403 while a user is logged in and
\* a post of another author exists.
C1_Witness ==
    /\ resp.op = "update" /\ resp.method = "POST" /\ resp.status = 403
    /\ load_logged_in_user # None
    /\ \E p \in post : p.author_id # load_logged_in_user.id

\* C2: when no user is loaded (no user_id in the session, or one that
\* resolves to no row), a create, update or delete request is answered with a
\* redirect to the login page, for every post id, and the post table is as
\* it was.
C2_AnonymousRedirected ==
    [][load_logged_in_user = None
       => \A q \in AnyRequest, id \in PostIds :
            /\ create(q.method, q.title, q.body)
                 => resp' = redirect("create", q.method, "/auth/login") /\ post' = post
            /\ update(q.method, id, q.title, q.body)
                 => resp' = redirect("update", q.method, "/auth/login") /\ post' = post
            /\ delete(id)
                 => resp' = redirect("delete", "POST", "/auth/login") /\ post' = post]_vars

\* C2 witness: a delete was redirected to the login page while posts exist
\* and no user is loaded.
C2_Witness ==
    /\ resp.op = "delete" /\ resp.status = 302 /\ resp.location = "/auth/login"
    /\ load_logged_in_user = None
    /\ post # {}

\* The other case of C2: the session carries a user_id that resolves to no row.
C2_WitnessStale ==
    /\ resp.op = "create" /\ resp.method = "POST" /\ resp.status = 302
    /\ resp.location = "/auth/login"
    /\ "user_id" \in DOMAIN session
    /\ load_logged_in_user = None
\* No two user rows share a username.
UniqueUsernames == \A r1, r2 \in user : r1.username = r2.username => r1 = r2

\* C3 as stated: usernames stay unique, and every register POST whose
\* username is taken shows the 'already registered' message, does not
\* redirect and leaves the user table (the one row of that name, its hash) as
\* it was.
C3_TakenUsernameConflict ==
    [][/\ UniqueUsernames'
       /\ \A u \in Usernames, p \in Passwords, s \in Salts :
            (register("POST", u, p, s) /\ \E r \in user : r.username = u)
            => /\ resp'.flash = <<"User ", u, " is already registered.">>
               /\ resp'.status # 302
               /\ user' = user]_vars

\* C3 amended: the same for a register POST whose username is taken and whose
\* password is not empty.
C3_TakenUsernameConflictWithPassword ==
    [][/\ UniqueUsernames'
       /\ \A u \in Usernames, p \in Passwords \ {""}, s \in Salts :
            (register("POST", u, p, s) /\ \E r \in user : r.username = u)
            => /\ resp'.flash = <<"User ", u, " is already registered.">>
               /\ resp'.status # 302
               /\ user' = user
               /\ Cardinality({r \in user' : r.username = u}) = 1]_vars

\* C3 witness: the conflict message was shown for "a", which has one row.
C3_Witness ==
    /\ resp.op = "register"
    /\ resp.flash = <<"User ", "a", " is already registered.">>
    /\ Cardinality({r \in user : r.username = "a"}) = 1

\* C4: a register POST with an empty username shows 'Username is required.',
\* one with a username and an empty password shows 'Password is required.';
\* both render the form again and leave the user table as it was.
C4_RegisterRequiredFields ==
    [][\A u \in Usernames, p \in Passwords, s \in Salts :
         /\ (register("POST", u, p, s) /\ u = "")
              => /\ resp' = render_template("register", "POST", "auth/register.html",
                                            <<"Username is required.">>, None)
                 /\ user' = user
         /\ (register("POST", u, p, s) /\ u # "" /\ p = "")
              => /\ resp' = render_template("register", "POST", "auth/register.html",
                                            <<"Password is required.">>, None)
                 /\ user' = user]_vars

\* C4 witness: 'Password is required.' was shown by register.
C4_Witness ==
    /\ resp.op = "register" /\ resp.method = "POST" /\ resp.status = 200
    /\ resp.flash = <<"Password is required.">>

C6_LoginRejected ==
    [][\A u \in Usernames, p \in Passwords :
         /\ (login("POST", u, p) /\ ~\E r \in user : r.username = u)
              => /\ resp'.flash = <<"Incorrect username.">>
                 /\ resp'.status # 302
                 /\ session' = session
         /\ (login("POST", u, p) /\ (\E r \in user : r.username = u)
                                 /\ <<u, p>> \notin registered)
              => /\ resp'.flash = <<"Incorrect password.">>
                 /\ resp'.status # 302
                 /\ session' = session]_vars

\* C6 witness: 'Incorrect password.' was shown while a user stays logged in.
C6_Witness ==
    /\ resp.op = "login" /\ resp.flash = <<"Incorrect password.">>
    /\ load_logged_in_user # None

C8_CreateInsertsNewestFirst ==
    [][\A f \in Forms :
         (load_logged_in_user # None /\ create("POST", f.title, f.body))
         => IF f.title = ""
            THEN /\ resp' = render_template("create", "POST", "blog/create.html",
                                            <<"Title is required.">>, None)
                 /\ post' = post
            ELSE \E row \in post' :
                   /\ \A q \in post : q.id # row.id
                   /\ post' = post \cup {row}
                   /\ row.title = f.title /\ row.body = f.body
                   /\ row.author_id = load_logged_in_user.id
                   /\ \A posts \in OrderByCreatedDesc(PostJoinUser)' :
                        posts[1].id = row.id]_vars

\* C9: for a logged-in requester, an update (GET or POST, any form) or a
\* delete naming a post id of no row is answered 404 and leaves the post
\* table as it was.
C9_MissingPostNotFound ==
    [][\A id \in PostIds :
         (load_logged_in_user # None /\ ~\E p \in post : p.id = id)
         => /\ \A q \in AnyRequest :
                 update(q.method, id, q.title, q.body)
                 => resp'.op = "update" /\ resp'.status = 404 /\ post' = post
            /\ delete(id)
                 => resp'.op = "delete" /\ resp'.status = 404 /\ post' = post]_vars

\* C9 witness: an update POST was answered 404 while a user is logged in and
\* other posts exist.
C9_Witness ==
    /\ resp.op = "update" /\ resp.method = "POST" /\ resp.status = 404
    /\ load_logged_in_user # None
    /\ post # {}

\* C10: an update POST by the owner with a title replaces the title and body
\* of the addressed row and nothing else (its id, author_id and created, and
\* every other row, stay); with an empty title it shows a validation error
\* and the post table is as it was.
C10_UpdateOverwritesTitleBody ==
    [][\A id \in PostIds, f \in Forms :
         (/\ load_logged_in_user # None
          /\ \E p \in post : p.id = id /\ p.author_id = load_logged_in_user.id
          /\ update("POST", id, f.title, f.body))
         => IF f.title = ""
            THEN /\ resp'.status = 200
                 /\ resp'.flash = <<"Title is required.">>
                 /\ post' = post
            ELSE \E p \in post :
                   /\ p.id = id
                   /\ post' = (post \ {p}) \cup
                        {[id |-> p.id, author_id |-> p.author_id,
                          created |-> p.created, title |-> f.title, body |-> f.body]}]_vars

\* C10 witness: an owner's update POST was stored (redirect to the listing)
\* with two posts in the table, one of them of another author.
C10_Witness ==
    /\ resp.op = "update" /\ resp.method = "POST"
    /\ resp.status = 302 /\ resp.location = "/"
    /\ Cardinality(post) = 2
    /\ \E p, q \in post : p.author_id # q.author_id
\* C11: in every state reached by register, login, logout, create, update
\* and delete requests, the author_id of every post row is the id of a user
\* row; no step changes the author_id of a post, and no step changes or
\* removes a user row.
C11_AuthorReferencesUser ==
    [][/\ \A p \in post' : \E u \in user' : u.id = p.author_id
       /\ \A p \in post, q \in post' : p.id = q.id => q.author_id = p.author_id
       /\ user \subseteq user']_vars

\* C11 witness: a create was stored as the second post, the two posts have
\* different authors, and both authors have a user row.
C11_Witness ==
    /\ resp.op = "create" /\ resp.status = 302
    /\ Cardinality(post) = 2
    /\ \E p, q \in post : p.author_id # q.author_id
    /\ \A p \in post : \E u \in user : u.id = p.author_id

\* C12: a delete by the owner removes the row of the given id and no other,
\* and redirects to the listing; no listing then contains that post.
C12_DeleteRemovesOnlyThatPost ==
    [][\A id \in PostIds :
         (/\ load_logged_in_user # None
          /\ \E p \in post : p.id = id /\ p.author_id = load_logged_in_user.id
          /\ delete(id))
         => /\ resp' = redirect("delete", "POST", "/")
            /\ post' = {p \in post : p.id # id}
            /\ Cardinality(post') = Cardinality(post) - 1
            /\ \A posts \in OrderByCreatedDesc(PostJoinUser)' :
                 \A i \in DOMAIN posts : posts[i].id # id]_vars

\* C12 witness: a delete was redirected to the listing and another post is
\* still in the table.
C12_Witness ==
    /\ resp = redirect("delete", "POST", "/")
    /\ load_logged_in_user # None
    /\ Cardinality(post) = 1
    /\ post_seq = 2
\* The two requests are answered and carry the same non-empty username and
\* non-empty passwords.
SameUsernameDone ==
    /\ \A c \in Requests : req[c].pc = "done" /\ req[c].password # ""
    /\ req[1].username = req[2].username
    /\ req[1].username # ""

\* One of the two requests inserted a row and was redirected to login, the
\* other was shown 'already registered', and one row holds the username.
OneInsertsOtherConflicts ==
    /\ \E c \in Requests :
         LET d == CHOOSE e \in Requests : e # c
         IN  /\ req[c].inserted /\ ~req[d].inserted
             /\ req[c].resp = redirect("register", "POST", "/auth/login")
             /\ req[d].resp.status = 200
             /\ req[d].resp.flash = <<"User ", req[d].username, " is already registered.">>
    /\ Cardinality({r \in user : r.username = req[1].username}) = 1

\* C13 as stated: whenever two register requests with the same non-empty
\* username and non-empty passwords have been handled, interleaved in any
\* order, one of them inserted and was redirected, the other was shown
\* 'already registered', and one row holds the username.
C13_ExactlyOneInserts ==
    /\ UniqueUsernames
    /\ SameUsernameDone => OneInsertsOtherConflicts

\* C13 amended: the same, for a username that no row held when the first of
\* the two requests arrived; usernames stay unique in every interleaving.
C13_ExactlyOneInsertsFreeUsername ==
    /\ UniqueUsernames
    /\ (SameUsernameDone /\ \E c \in Requests : req[c].free)
         => OneInsertsOtherConflicts

\* C13 witness: both requests found the username free when they arrived, one
\* of them committed its row and the other was shown the conflict message.
C13_Witness ==
    /\ SameUsernameDone
    /\ \A c \in Requests : req[c].free
    /\ req[1].password # req[2].password
    /\ OneInsertsOtherConflicts
====
